---- MODULE Spec2Model ----
(***************************************************************************)
(* A model of saito::base::_base_mgr<val_t> (src/tpl_orm.hpp), the keyed   *)
(* registry of shared entity handles, and of the threads that call it.     *)
(*                                                                         *)
(* A registry object holds a std::recursive_mutex m_mtx and a              *)
(* std::map<key_t, val_pt> m_data.  add, get and del each construct a      *)
(* std::lock_guard on m_mtx in their first statement and release it when   *)
(* they return.  Each source statement is one step of the calling thread;  *)
(* a program counter value is named after the operation and the source     *)
(* line the thread is about to execute.                                    *)
(***************************************************************************)
EXTENDS Integers, FiniteSets, Sequences, TLC

\* ---------------------------------------------------------------- bounds
NumThreads == 2        \* calling threads
MaxKey == 1            \* keys are 0..MaxKey (key_t is int in the test type)
MaxEnt == 2            \* entity objects are 1..MaxEnt
MaxReg == 2            \* registry objects that instance() may construct
MaxDepth == 1          \* calls a thread may have suspended inside a registry call
MaxVal == 1            \* a caller sets the field m_val of an entity to 0..MaxVal

Threads == 1..NumThreads
Keys == 0..MaxKey
Entities == 1..MaxEnt
Registries == 1..MaxReg

\* A val_pt is a std::shared_ptr<val_t>: nullptr or a handle on an entity.
nullptr == 0
val_pt == {nullptr} \cup Entities

\* The hooks an entity type declares through _bai<val_t>.
HookNames == {"add_index", "del_index", "db_update", "db_insert", "db_delete",
              "cache_update", "cache_insert", "cache_remove"}

VARIABLES
    nreg,           \* number of _base_mgr objects constructed so far
    m_data,         \* m_data[r]: the std::map of registry r (a partial function)
    m_mtx,          \* m_mtx[r]: the recursive mutex of registry r
    orm_ins,        \* orm_ins[t]: the instance_t handle thread t holds (0: none)
    pc,             \* pc[t]: where thread t is
    reg,            \* reg[t]: the registry (this) of t's call in progress
    key,            \* key[t]: argument k of t's call in progress
    val,            \* val[t]: argument v of t's add in progress
    ret_add,        \* ret_add[t]: the bool t's add is returning
    ret_get,        \* ret_get[t]: the val_pt t's get is returning
    hooks,          \* the <<entity, hook>> calls made so far
    db_insert_ok,   \* what the entity type's db_insert() returns
    delete_ok,      \* whether its db_delete() and cache_remove() both return true
    ref,            \* history: ref[r] is the reference partial map of registry r,
                    \*   advanced by the reference operation when a call returns
    m_val,          \* m_val[e]: the field m_val of entity e
    use_count,      \* use_count[e]: the handles (shared_ptr) on entity e that exist
    freed,          \* the entities that have been deleted
    held,           \* held[t]: the entities thread t keeps a handle on
    line,           \* line[t]: the line of test() thread t is at (0: not in test)
    i,              \* i[t]: the loop variable of test()
    stack,          \* stack[t]: the suspended registry calls of t, innermost last
    scen,           \* history: how much of the Account scenario the calls so far are
    deleted         \* history: keys removed by del and not added again since

vars == <<nreg, m_data, m_mtx, orm_ins, pc, reg, key, val, ret_add, ret_get,
          hooks, db_insert_ok, delete_ok, ref, m_val, use_count, freed, held, line,
          i, stack, scen, deleted>>

\* ------------------------------------------------------- std::map<key_t, val_pt>
EmptyMap == [x \in {} |-> nullptr]

\* a find that answers for the first element instead of for k
FoundAny(m, k) == DOMAIN m # {}

\* m.find(k) != m.end()
Found(m, k) == k \in DOMAIN m

\* m = {{k, v}} in place of m.insert: the other elements are lost.
InsertAlone(m, k, v) == [x \in {k} |-> v]

\* m.insert(std::make_pair(k, v)): std::map::insert keeps an existing element.
Insert(m, k, v) ==
    [x \in DOMAIN m \cup {k} |-> IF x \in DOMAIN m THEN m[x] ELSE v]

\* m.clear() in place of m.erase(k)
EraseAll(m, k) == EmptyMap

\* an erase that removes nothing
EraseNone(m, k) == m

\* m.erase(k)
Erase(m, k) == [x \in DOMAIN m \ {k} |-> m[x]]

\* ------------------------------------------------------- std::recursive_mutex
Unlocked == [owner |-> 0, count |-> 0]

\* a mutex that excludes nobody
CanLockAlways(mtx, t) == TRUE

\* lock() of a std::mutex: it does not return while any thread, the caller
\* included, owns the mutex
CanLockOnce(mtx, t) == mtx.owner = 0

\* lock() returns for thread t when no other thread owns the mutex.
CanLock(mtx, t) == mtx.owner \in {0, t}

\* lock_shared() of a reader lock: the mutex counts its holders and excludes none
LockShared(mtx, t) == [owner |-> 0, count |-> mtx.count + 1]

Lock(mtx, t) == [owner |-> t, count |-> mtx.count + 1]

\* an unlock() that gives up every acquisition of the owner at once
UnlockAll(mtx) == Unlocked

Unlock(mtx) ==
    IF mtx.count = 1 THEN Unlocked ELSE [mtx EXCEPT !.count = @ - 1]

\* one mutex for all registries, as a static member would be
mtx_static(r) == CHOOSE x \in Registries : \A y \in Registries : x <= y

\* m_mtx is a non-static member: registry object r locks its own mutex.
mtx_of(r) == r

\* ------------------------------------------------------- hooks
\* an add that runs the create pathway of the persistence hooks: db_insert
\* first, cache_insert and add_index only when it succeeded
add_hooks_create(v) ==
    IF db_insert_ok THEN {"db_insert", "cache_insert", "add_index"}
                    ELSE {"db_insert"}

\* an add that fires the index hook of the entity it registers
add_hooks_index(v) == {"add_index"}

\* The hooks of _bai<val_t> that add calls on the entity it is given: none.
add_hooks(v) == {}

\* a del that runs the delete pathway of the persistence hooks: db_delete and
\* cache_remove first, del_index only when both succeeded
del_hooks_delete(v) ==
    IF delete_ok THEN {"db_delete", "cache_remove", "del_index"}
                 ELSE {"db_delete", "cache_remove"}

\* The hooks of _bai<val_t> that del calls on the entity it removes: none.
del_hooks(v) == {}

\* ------------------------------------------------------- reference partial map
RefAdd(m, k, v) == IF k \in DOMAIN m THEN m ELSE (k :> v) @@ m
RefAddResult(m, k) == k \notin DOMAIN m
RefGet(m, k) == IF k \in DOMAIN m THEN m[k] ELSE nullptr
RefDel(m, k) == [x \in DOMAIN m \ {k} |-> m[x]]

\* ------------------------------------------------------- initial states
NoFrame(t) ==
    /\ reg' = [reg EXCEPT ![t] = 0]
    /\ key' = [key EXCEPT ![t] = 0]
    /\ val' = [val EXCEPT ![t] = nullptr]
    /\ ret_add' = [ret_add EXCEPT ![t] = FALSE]
    /\ ret_get' = [ret_get EXCEPT ![t] = nullptr]

InitCommon ==
    /\ m_data = [r \in Registries |-> EmptyMap]
    /\ m_mtx = [r \in Registries |-> Unlocked]
    /\ ret_add = [t \in Threads |-> FALSE]
    /\ ret_get = [t \in Threads |-> nullptr]
    /\ hooks = {}
    /\ db_insert_ok \in BOOLEAN
    /\ delete_ok \in BOOLEAN
    /\ ref = [r \in Registries |-> EmptyMap]
    /\ m_val = [e \in Entities |-> 0]
    /\ use_count = [e \in Entities |-> 0]
    /\ freed = {}
    /\ held = [t \in Threads |-> {}]
    /\ i = [t \in Threads |-> 0]
    /\ stack = [t \in Threads |-> << >>]
    /\ scen = 0
    /\ deleted = {}

\* One registry has been constructed by instance() and every thread holds a
\* copy of the handle.
Init ==
    /\ InitCommon
    /\ nreg = 1
    /\ orm_ins = [t \in Threads |-> 1]
    /\ pc = [t \in Threads |-> "idle"]
    /\ reg = [t \in Threads |-> 0]
    /\ key = [t \in Threads |-> 0]
    /\ val = [t \in Threads |-> nullptr]
    /\ line = [t \in Threads |-> 0]


\* ------------------------------------------------------- calls
\* What no registry operation touches.
NoInstance == UNCHANGED <<nreg, orm_ins, db_insert_ok, delete_ok>>

\* Thread t calls add, get or del through its handle: orm_ins[t]->add(k, v).
\* Nothing reads the arguments before the lock is taken, so they are drawn when
\* the thread gets past the lock_guard.
call(t, first) ==
    /\ pc[t] = "idle"
    /\ orm_ins[t] # 0
    /\ pc' = [pc EXCEPT ![t] = first]
    /\ reg' = [reg EXCEPT ![t] = orm_ins[t]]
    /\ UNCHANGED <<m_data, m_mtx, key, val, ret_add, ret_get, hooks, ref>>
    /\ NoInstance

call_add(t) == call(t, "add_182")
call_get(t) == call(t, "get_191")
call_del(t) == call(t, "del_199")

\* add, get and del without their lock_guard: the body runs at once and the
\* mutex is not taken.
lock_guard_unguarded(t, at, next, k, v) ==
    /\ pc[t] = at
    /\ pc' = [pc EXCEPT ![t] = next]
    /\ key' = [key EXCEPT ![t] = k]
    /\ val' = [val EXCEPT ![t] = v]
    /\ UNCHANGED <<m_data, m_mtx, reg, ret_add, ret_get, hooks, ref>>
    /\ NoInstance

\* std::lock_guard<std::recursive_mutex> l(m_mtx): the first statement of add,
\* get and del, called with the arguments k and v.  The thread waits here while
\* another thread owns the mutex.
lock_guard(t, at, next, k, v) ==
    /\ pc[t] = at
    /\ CanLock(m_mtx[mtx_of(reg[t])], t)
    /\ m_mtx' = [m_mtx EXCEPT ![mtx_of(reg[t])] = Lock(@, t)]
    /\ pc' = [pc EXCEPT ![t] = next]
    /\ key' = [key EXCEPT ![t] = k]
    /\ val' = [val EXCEPT ![t] = v]
    /\ UNCHANGED <<m_data, reg, ret_add, ret_get, hooks, ref>>
    /\ NoInstance

\* The return statement and the destructor of the lock_guard.  The caller
\* either goes on to make further calls (after = "idle": the frame is gone) or
\* keeps the result and ends (after = "done").
unlock_return(t, at, after, newref) ==
    /\ pc[t] = at
    /\ m_mtx' = [m_mtx EXCEPT ![mtx_of(reg[t])] = Unlock(@)]
    /\ ref' = [ref EXCEPT ![reg[t]] = newref]
    /\ pc' = [pc EXCEPT ![t] = after]
    /\ IF after = "idle" THEN NoFrame(t)
                         ELSE UNCHANGED <<reg, key, val, ret_add, ret_get>>
    /\ UNCHANGED <<m_data, hooks>>
    /\ NoInstance

\* ------------------------------------------------------- add (lines 180-188)
add_182(t, k, v) == lock_guard(t, "add_182", "add_183", k, v)

\* add with a collision test that takes a key holding an empty handle for
\* absent.
add_183_nonempty(t) ==
    /\ pc[t] = "add_183"
    /\ IF Found(m_data[reg[t]], key[t]) /\ m_data[reg[t]][key[t]] # nullptr
          THEN /\ ret_add' = [ret_add EXCEPT ![t] = FALSE]
               /\ pc' = [pc EXCEPT ![t] = "add_188"]
          ELSE /\ pc' = [pc EXCEPT ![t] = "add_186"]
               /\ UNCHANGED ret_add
    /\ UNCHANGED <<m_data, m_mtx, reg, key, val, ret_get, hooks, ref>>
    /\ NoInstance

\* add without its collision test: the insert is always attempted and true
\* returned.
add_183_nocheck(t) ==
    /\ pc[t] = "add_183"
    /\ pc' = [pc EXCEPT ![t] = "add_186"]
    /\ UNCHANGED <<m_data, m_mtx, reg, key, val, ret_add, ret_get, hooks, ref>>
    /\ NoInstance

\* auto it = m_data.find(k); if (it != m_data.end()) return false;
add_183(t) ==
    /\ pc[t] = "add_183"
    /\ IF Found(m_data[reg[t]], key[t])
          THEN /\ ret_add' = [ret_add EXCEPT ![t] = FALSE]
               /\ pc' = [pc EXCEPT ![t] = "add_188"]
          ELSE /\ pc' = [pc EXCEPT ![t] = "add_186"]
               /\ UNCHANGED ret_add
    /\ UNCHANGED <<m_data, m_mtx, reg, key, val, ret_get, hooks, ref>>
    /\ NoInstance

\* m_data.insert(std::make_pair(k, v)); return true;
add_186(t) ==
    /\ pc[t] = "add_186"
    /\ m_data' = [m_data EXCEPT ![reg[t]] = Insert(@, key[t], val[t])]
    /\ hooks' = hooks \cup ({val[t]} \X add_hooks(val[t]))
    /\ ret_add' = [ret_add EXCEPT ![t] = TRUE]
    /\ pc' = [pc EXCEPT ![t] = "add_188"]
    /\ UNCHANGED <<m_mtx, reg, key, val, ret_get, ref>>
    /\ NoInstance

add_188(t, after) ==
    unlock_return(t, "add_188", after, RefAdd(ref[reg[t]], key[t], val[t]))

\* ------------------------------------------------------- get (lines 189-196)
get_191(t, k) == lock_guard(t, "get_191", "get_192", k, nullptr)

\* a get that waits, under the lock, until the key is registered
get_192_wait(t) ==
    /\ pc[t] = "get_192"
    /\ Found(m_data[reg[t]], key[t])
    /\ ret_get' = [ret_get EXCEPT ![t] = m_data[reg[t]][key[t]]]
    /\ pc' = [pc EXCEPT ![t] = "get_196"]
    /\ UNCHANGED <<m_data, m_mtx, reg, key, val, ret_add, hooks, ref>>
    /\ NoInstance

\* get written with m_data[k]: std::map::operator[] inserts a default
\* (nullptr) element for an absent key.
get_192_subscript(t) ==
    /\ pc[t] = "get_192"
    /\ m_data' = [m_data EXCEPT ![reg[t]] = Insert(@, key[t], nullptr)]
    /\ ret_get' = [ret_get EXCEPT ![t] = m_data'[reg[t]][key[t]]]
    /\ pc' = [pc EXCEPT ![t] = "get_196"]
    /\ UNCHANGED <<m_mtx, reg, key, val, ret_add, hooks, ref>>
    /\ NoInstance

\* auto it = m_data.find(k); if (it == m_data.end()) return nullptr;
\* return it->second;
get_192(t) ==
    /\ pc[t] = "get_192"
    /\ ret_get' = [ret_get EXCEPT ![t] =
                      IF Found(m_data[reg[t]], key[t])
                         THEN m_data[reg[t]][key[t]] ELSE nullptr]
    /\ pc' = [pc EXCEPT ![t] = "get_196"]
    /\ UNCHANGED <<m_data, m_mtx, reg, key, val, ret_add, hooks, ref>>
    /\ NoInstance

get_196(t, after) == unlock_return(t, "get_196", after, ref[reg[t]])

\* ------------------------------------------------------- del (lines 197-201)
del_199(t, k) == lock_guard(t, "del_199", "del_200", k, nullptr)

\* m_data.erase(k);
del_200(t) ==
    /\ pc[t] = "del_200"
    /\ m_data' = [m_data EXCEPT ![reg[t]] = Erase(@, key[t])]
    /\ hooks' = IF Found(m_data[reg[t]], key[t])
                   THEN hooks \cup ({m_data[reg[t]][key[t]]}
                                      \X del_hooks(m_data[reg[t]][key[t]]))
                   ELSE hooks
    /\ pc' = [pc EXCEPT ![t] = "del_201"]
    /\ UNCHANGED <<m_mtx, reg, key, val, ret_add, ret_get, ref>>
    /\ NoInstance

del_201(t, after) ==
    unlock_return(t, "del_201", after, RefDel(ref[reg[t]], key[t]))

\* ------------------------------------------------------- instance (lines 165-169)
\* instance_t ret(new _base_mgr<val_t>()); return ret;
\* Every call constructs a registry object; m_instance (line 172) is never read
\* or written.
instance(t) ==
    /\ pc[t] = "idle"
    /\ nreg < MaxReg
    /\ nreg' = nreg + 1
    /\ orm_ins' = [orm_ins EXCEPT ![t] = nreg + 1]
    /\ UNCHANGED <<m_data, m_mtx, pc, reg, key, val, ret_add, ret_get, hooks,
                   db_insert_ok, delete_ok, ref>>

\* ------------------------------------------------------- threads calling at will
\* The callers keep no account of the handles they hold and are not test(),
\* no call is made from inside a registry call, and the history variables
\* scen and deleted are kept only by SpecSeq.
NoOwners == UNCHANGED <<m_val, use_count, freed, held>>
NoTest == UNCHANGED <<line, i>>
NoNesting == UNCHANGED stack /\ NoOwners /\ NoTest
NoHistory == NoNesting /\ UNCHANGED <<scen, deleted>>

Next ==
    \E t \in Threads :
        \/ call_add(t) /\ NoHistory
        \/ call_get(t) /\ NoHistory
        \/ call_del(t) /\ NoHistory
        \/ \E k \in Keys, v \in val_pt : add_182(t, k, v) /\ NoHistory
        \/ add_183(t) /\ NoHistory
        \/ add_186(t) /\ NoHistory
        \/ add_188(t, "idle") /\ NoHistory
        \/ \E k \in Keys : get_191(t, k) /\ NoHistory
        \/ get_192(t) /\ NoHistory
        \/ get_196(t, "idle") /\ NoHistory
        \/ \E k \in Keys : del_199(t, k) /\ NoHistory
        \/ del_200(t) /\ NoHistory
        \/ del_201(t, "idle") /\ NoHistory

Spec == Init /\ [][Next]_vars

\* ------------------------------------------------------- fair scheduling
\* The steps of a call in progress of thread t.  Whether a thread makes
\* another call is up to the thread.  A thread past its lock_guard can run,
\* and the scheduler runs every thread that can: a step that stays possible
\* is taken.  A thread at its lock_guard can go on only while no other thread
\* owns the mutex; fair scheduling lets a thread that is able to take the
\* mutex again and again take it in the end.
Acquire(t) ==
    /\ \/ \E k \in Keys, v \in val_pt : add_182(t, k, v)
       \/ \E k \in Keys : get_191(t, k)
       \/ \E k \in Keys : del_199(t, k)
    /\ NoHistory

Run(t) ==
    /\ \/ add_183(t)
       \/ add_186(t)
       \/ add_188(t, "idle")
       \/ get_192(t)
       \/ get_196(t, "idle")
       \/ del_200(t)
       \/ del_201(t, "idle")
    /\ NoHistory

SpecFair ==
    /\ Init
    /\ [][Next]_vars
    /\ \A t \in Threads : WF_vars(Run(t)) /\ SF_vars(Acquire(t))

\* ------------------------------------------------------- registries from instance()
\* No registry exists yet; each thread obtains its handle from instance() and
\* calls the registry through it.
InitInst ==
    /\ InitCommon
    /\ nreg = 0
    /\ orm_ins = [t \in Threads |-> 0]
    /\ pc = [t \in Threads |-> "idle"]
    /\ reg = [t \in Threads |-> 0]
    /\ key = [t \in Threads |-> 0]
    /\ val = [t \in Threads |-> nullptr]
    /\ line = [t \in Threads |-> 0]

NextInst ==
    \/ \E t \in Threads : instance(t) /\ NoHistory
    \/ Next

SpecInst == InitInst /\ [][NextInst]_vars

\* ------------------------------------------------------- N threads, one add each
\* Every thread has been started on one add of its own (key[t], val[t]) on the
\* same empty registry, keeps the bool it gets back, and ends.
InitWorkers ==
    /\ InitCommon
    /\ nreg = 1
    /\ orm_ins = [t \in Threads |-> 1]
    /\ pc = [t \in Threads |-> "add_182"]
    /\ reg = [t \in Threads |-> 1]
    /\ key \in [Threads -> Keys]
    /\ val \in [Threads -> val_pt]
    /\ line = [t \in Threads |-> 0]

NextWorkers ==
    \E t \in Threads :
        \/ add_182(t, key[t], val[t]) /\ NoHistory
        \/ add_183(t) /\ NoHistory
        \/ add_186(t) /\ NoHistory
        \/ add_188(t, "done") /\ NoHistory

SpecWorkers == InitWorkers /\ [][NextWorkers]_vars

\* ------------------------------------------------------- one thread, any sequence
\* The Account scenario on keys 0 and 1: acct_a is entity 1, acct_b is entity 2
\* and acct_c, which must differ from acct_a, is entity 2 as well.
Script ==
    << [op |-> "add", k |-> 0, v |-> 1],
       [op |-> "add", k |-> 1, v |-> 2],
       [op |-> "add", k |-> 0, v |-> 2],
       [op |-> "get", k |-> 0, v |-> nullptr],
       [op |-> "del", k |-> 1, v |-> nullptr],
       [op |-> "get", k |-> 1, v |-> nullptr],
       [op |-> "get", k |-> 0, v |-> nullptr] >>

acct_a == Script[1].v

\* scen = n > 0: the calls made so far are exactly the first n of Script;
\* scen = -1: they are not.
Advance(c) ==
    scen' = IF scen >= 0 /\ scen < Len(Script) /\ Script[scen + 1] = c
               THEN scen + 1 ELSE -1

\* del(k) returned on a key that was registered: k is now a removed key.
\* add(k, _) returned true: k is registered again.
Removed(t) ==
    deleted' = IF key[t] \in DOMAIN ref[reg[t]]
                  THEN deleted \cup {key[t]} ELSE deleted

Readded(t) ==
    deleted' = IF ret_add[t] THEN deleted \ {key[t]} ELSE deleted

\* The one thread that makes the calls.
Main == CHOOSE t \in Threads : \A u \in Threads : t <= u

NextSeq ==
    \/ call_add(Main) /\ NoHistory
    \/ call_get(Main) /\ NoHistory
    \/ call_del(Main) /\ NoHistory
    \/ \E k \in Keys, v \in val_pt :
          add_182(Main, k, v) /\ Advance([op |-> "add", k |-> k, v |-> v])
                              /\ UNCHANGED deleted /\ NoNesting
    \/ add_183(Main) /\ NoHistory
    \/ add_186(Main) /\ NoHistory
    \/ add_188(Main, "idle") /\ Readded(Main) /\ UNCHANGED scen
                              /\ NoNesting
    \/ \E k \in Keys :
          get_191(Main, k) /\ Advance([op |-> "get", k |-> k, v |-> nullptr])
                           /\ UNCHANGED deleted /\ NoNesting
    \/ get_192(Main) /\ NoHistory
    \/ get_196(Main, "idle") /\ NoHistory
    \/ \E k \in Keys :
          del_199(Main, k) /\ Advance([op |-> "del", k |-> k, v |-> nullptr])
                           /\ UNCHANGED deleted /\ NoNesting
    \/ del_200(Main) /\ NoHistory
    \/ del_201(Main, "idle") /\ Removed(Main) /\ UNCHANGED scen
                              /\ NoNesting

SpecSeq == Init /\ [][NextSeq]_vars

\* ------------------------------------------------------- std::shared_ptr<val_t>
\* a handle that owns its entity alone: giving it up deletes the entity
ReleaseDelete(uc, v) ==
    IF v \in Entities THEN [uc EXCEPT ![v] = 0] ELSE uc

\* The use counts after a copy of handle v is made, and after a handle v is
\* destroyed.  An empty handle counts nothing.
Retain(uc, v) ==
    IF v \in Entities THEN [uc EXCEPT ![v] = @ + 1] ELSE uc

Release(uc, v) ==
    IF v \in Entities THEN [uc EXCEPT ![v] = @ - 1] ELSE uc

copy_handle(v) ==
    /\ use_count' = Retain(use_count, v)
    /\ UNCHANGED freed

\* The entity is deleted when its last handle goes.
drop_handle(v) ==
    /\ use_count' = Release(use_count, v)
    /\ freed' = freed \cup {e \in Entities : use_count[e] > 0 /\ use_count'[e] = 0}

\* The entities not yet constructed, and the one that new val_t constructs.
Fresh == {e \in Entities : use_count[e] = 0 /\ e \notin freed}
NewEntity == CHOOSE e \in Fresh : \A x \in Fresh : e <= x

\* What the code of a caller leaves alone.
NoRegistry ==
    /\ UNCHANGED <<m_data, m_mtx, reg, key, val, ret_add, ret_get, hooks, ref>>
    /\ NoInstance
Kept == UNCHANGED <<stack, scen, deleted>>

\* auto op = val_t::new_instance(): std::shared_ptr<val_t> ret(new val_t)
\* (lines 57-61), with int m_val {0} (line 234).
new_instance(t) ==
    /\ pc[t] = "idle"
    /\ Fresh # {}
    /\ held' = [held EXCEPT ![t] = @ \cup {NewEntity}]
    /\ use_count' = Retain(use_count, NewEntity)
    /\ m_val' = [m_val EXCEPT ![NewEntity] = 0]
    /\ UNCHANGED <<freed, pc>>
    /\ NoRegistry

\* e->val(v) through a handle the thread holds (line 238).
val_set(t, e, v) ==
    /\ pc[t] = "idle"
    /\ e \in held[t]
    /\ m_val' = [m_val EXCEPT ![e] = v]
    /\ UNCHANGED <<use_count, freed, held, pc>>
    /\ NoRegistry

\* The thread destroys or resets its handle on e.
reset(t, e) ==
    /\ pc[t] = "idle"
    /\ e \in held[t]
    /\ held' = [held EXCEPT ![t] = @ \ {e}]
    /\ drop_handle(e)
    /\ UNCHANGED <<m_val, pc>>
    /\ NoRegistry

\* auto ins = orm_ins->get(k): the caller keeps the handle get returned, unless
\* it is empty or the caller has one on the same entity already.
take(t) ==
    /\ pc[t] = "done"
    /\ IF ret_get[t] \in Entities /\ ret_get[t] \notin held[t]
          THEN /\ held' = [held EXCEPT ![t] = @ \cup {ret_get[t]}]
               /\ UNCHANGED <<use_count, freed>>
          ELSE /\ drop_handle(ret_get[t])
               /\ UNCHANGED held
    /\ pc' = [pc EXCEPT ![t] = "idle"]
    /\ NoFrame(t)
    /\ UNCHANGED <<m_data, m_mtx, hooks, ref, m_val>>
    /\ NoInstance

\* The element that m_data.erase(k) destroys: the handle stored under k.
Erased(t) ==
    IF Found(m_data[reg[t]], key[t]) THEN m_data[reg[t]][key[t]] ELSE nullptr

\* Threads that create entities, hold handles on them, register them, look
\* them up, remove them and give their handles up, in any order.  insert
\* stores a copy of the handle it is given, get returns a copy of the stored
\* handle, erase destroys the stored handle.
NextOwners ==
    \E t \in Threads :
        \/ new_instance(t) /\ Kept /\ NoTest
        \/ \E e \in held[t], v \in 0..MaxVal : val_set(t, e, v) /\ Kept /\ NoTest
        \/ \E e \in held[t] : reset(t, e) /\ Kept /\ NoTest
        \/ call_add(t) /\ NoHistory
        \/ call_get(t) /\ NoHistory
        \/ call_del(t) /\ NoHistory
        \/ \E k \in Keys, v \in held[t] \cup {nullptr} :
              add_182(t, k, v) /\ NoHistory
        \/ add_183(t) /\ NoHistory
        \/ add_186(t) /\ copy_handle(val[t]) /\ UNCHANGED <<m_val, held>>
                      /\ Kept /\ NoTest
        \/ add_188(t, "idle") /\ NoHistory
        \/ \E k \in Keys : get_191(t, k) /\ NoHistory
        \/ get_192(t) /\ copy_handle(ret_get'[t]) /\ UNCHANGED <<m_val, held>>
                      /\ Kept /\ NoTest
        \/ get_196(t, "done") /\ NoHistory
        \/ take(t) /\ Kept /\ NoTest
        \/ \E k \in Keys : del_199(t, k) /\ NoHistory
        \/ del_200(t) /\ drop_handle(Erased(t)) /\ UNCHANGED <<m_val, held>>
                      /\ Kept /\ NoTest
        \/ del_201(t, "idle") /\ NoHistory

SpecOwners == Init /\ [][NextOwners]_vars

\* ------------------------------------------------------- test() (lines 245-262)
\* One thread runs test().  line[t] is the line it is at; the registry calls
\* of lines 251, 252 and 255 run through the steps of add and get.
goto(t, l) == line' = [line EXCEPT ![t] = l]

InitTest ==
    /\ InitCommon
    /\ nreg = 0
    /\ orm_ins = [t \in Threads |-> 0]
    /\ pc = [t \in Threads |-> "idle"]
    /\ reg = [t \in Threads |-> 0]
    /\ key = [t \in Threads |-> 0]
    /\ val = [t \in Threads |-> nullptr]
    /\ line = [t \in Threads |-> IF t = Main THEN 247 ELSE 0]

\* auto op = base_test::new_instance ();
test_247(t) ==
    /\ line[t] = 247
    /\ new_instance(t)
    /\ goto(t, 248)
    /\ UNCHANGED i

\* op->val(100);  op is the one handle the thread keeps.
test_248(t) ==
    /\ line[t] = 248
    /\ \E op \in held[t] : val_set(t, op, 100)
    /\ goto(t, 250)
    /\ UNCHANGED i

\* auto orm_ins = orm_test::instance ();
test_250(t) ==
    /\ line[t] = 250
    /\ instance(t)
    /\ goto(t, 251)
    /\ UNCHANGED i
    /\ NoOwners

\* orm_ins->add (0, base_test::new_instance()): the argument is a temporary
\* handle on a new entity, destroyed when the call has returned.
test_251_arg(t) ==
    /\ line[t] = 251
    /\ Fresh # {}
    /\ add_182(t, 0, NewEntity)
    /\ use_count' = Retain(use_count, NewEntity)
    /\ m_val' = [m_val EXCEPT ![NewEntity] = 0]
    /\ UNCHANGED <<freed, held>>
    /\ NoTest

test_251_return(t) ==
    /\ line[t] = 251
    /\ add_188(t, "idle")
    /\ drop_handle(val[t])
    /\ UNCHANGED <<m_val, held>>
    /\ goto(t, 252)
    /\ UNCHANGED i

\* orm_ins->add (1, op);  then the loop starts: int i = 0
test_252_arg(t) ==
    /\ line[t] = 252
    /\ \E op \in held[t] : add_182(t, 1, op)
    /\ NoOwners
    /\ NoTest

test_252_return(t) ==
    /\ line[t] = 252
    /\ add_188(t, "idle")
    /\ NoOwners
    /\ goto(t, 254)
    /\ i' = [i EXCEPT ![t] = 0]

\* for (...; i < 3; ...)
test_254(t) ==
    /\ line[t] = 254
    /\ pc[t] = "idle"
    /\ IF i[t] < 3 THEN goto(t, 255) ELSE goto(t, 262)
    /\ UNCHANGED <<i, pc>>
    /\ NoOwners
    /\ NoRegistry

\* auto ins = orm_ins->get(i);  ins is ret_get[t] until the end of the body.
test_255_return(t) ==
    /\ line[t] = 255
    /\ get_196(t, "done")
    /\ goto(t, 257)
    /\ UNCHANGED i
    /\ NoOwners

\* assert(ins != nullptr);  a failed assertion aborts the program.
test_257(t) ==
    /\ line[t] = 257
    /\ pc[t] = "done"
    /\ IF ret_get[t] # nullptr
          THEN goto(t, 258) /\ UNCHANGED pc
          ELSE pc' = [pc EXCEPT ![t] = "abort"] /\ UNCHANGED line
    /\ UNCHANGED i
    /\ NoOwners
    /\ NoRegistry

\* ins->val(ins->val() + 100);  the body ends: ins is destroyed and ++i.
test_258(t) ==
    /\ line[t] = 258
    /\ pc[t] = "done"
    /\ m_val' = [m_val EXCEPT ![ret_get[t]] = @ + 100]
    /\ drop_handle(ret_get[t])
    /\ UNCHANGED held
    /\ i' = [i EXCEPT ![t] = @ + 1]
    /\ goto(t, 254)
    /\ pc' = [pc EXCEPT ![t] = "idle"]
    /\ NoFrame(t)
    /\ UNCHANGED <<m_data, m_mtx, hooks, ref>>
    /\ NoInstance

NextTest ==
    \/ test_247(Main) /\ Kept
    \/ test_248(Main) /\ Kept
    \/ test_250(Main) /\ Kept
    \/ line[Main] \in {251, 252} /\ call_add(Main) /\ NoHistory
    \/ test_251_arg(Main) /\ Kept
    \/ test_252_arg(Main) /\ Kept
    \/ add_183(Main) /\ NoHistory
    \/ add_186(Main) /\ copy_handle(val[Main]) /\ UNCHANGED <<m_val, held>>
                     /\ Kept /\ NoTest
    \/ test_251_return(Main) /\ Kept
    \/ test_252_return(Main) /\ Kept
    \/ test_254(Main) /\ Kept
    \/ line[Main] = 255 /\ call_get(Main) /\ NoHistory
    \/ get_191(Main, i[Main]) /\ NoHistory
    \/ get_192(Main) /\ copy_handle(ret_get'[Main]) /\ UNCHANGED <<m_val, held>>
                     /\ Kept /\ NoTest
    \/ test_255_return(Main) /\ Kept
    \/ test_257(Main) /\ Kept
    \/ test_258(Main) /\ Kept

SpecTest == InitTest /\ [][NextTest]_vars

\* ------------------------------------------------------- calls from inside a call
\* find, insert and erase run code of the instantiating types while the lock
\* is held: the comparison of key_t, and in erase the destructor of the entity
\* whose last handle the map held.  That code may call add, get or del on the
\* same registry: the call in progress is suspended at its map statement and
\* the new call starts at its own lock_guard, on the same thread.
MapStatements == {"add_183", "add_186", "get_192", "del_200"}

reenter(t, first) ==
    /\ pc[t] \in MapStatements
    /\ Len(stack[t]) < MaxDepth
    /\ stack' = [stack EXCEPT ![t] =
                     Append(@, [pc |-> pc[t], key |-> key[t], val |-> val[t]])]
    /\ pc' = [pc EXCEPT ![t] = first]
    /\ UNCHANGED <<m_data, m_mtx, reg, key, val, ret_add, ret_get, hooks, ref,
                   scen, deleted>>
    /\ NoOwners
    /\ NoTest
    /\ NoInstance

\* The inner call has returned (pc "ret": its lock_guard is destroyed); the
\* suspended call goes on at its map statement with its own arguments.
resume(t) ==
    /\ pc[t] = "ret"
    /\ stack[t] # << >>
    /\ LET f == stack[t][Len(stack[t])] IN
          /\ pc' = [pc EXCEPT ![t] = f.pc]
          /\ key' = [key EXCEPT ![t] = f.key]
          /\ val' = [val EXCEPT ![t] = f.val]
    /\ ret_add' = [ret_add EXCEPT ![t] = FALSE]
    /\ ret_get' = [ret_get EXCEPT ![t] = nullptr]
    /\ stack' = [stack EXCEPT ![t] = SubSeq(@, 1, Len(@) - 1)]
    /\ UNCHANGED <<m_data, m_mtx, reg, hooks, ref, scen, deleted>>
    /\ NoOwners
    /\ NoTest
    /\ NoInstance

\* Where a returning call of t goes: to the thread's own code, or back into
\* the call that made it.
ReturnTo(t) == IF stack[t] = << >> THEN "idle" ELSE "ret"

NextReent ==
    \E t \in Threads :
        \/ call_add(t) /\ NoHistory
        \/ call_get(t) /\ NoHistory
        \/ call_del(t) /\ NoHistory
        \/ reenter(t, "add_182")
        \/ reenter(t, "get_191")
        \/ reenter(t, "del_199")
        \/ \E k \in Keys, v \in val_pt : add_182(t, k, v) /\ NoHistory
        \/ add_183(t) /\ NoHistory
        \/ add_186(t) /\ NoHistory
        \/ add_188(t, ReturnTo(t)) /\ NoHistory
        \/ \E k \in Keys : get_191(t, k) /\ NoHistory
        \/ get_192(t) /\ NoHistory
        \/ get_196(t, ReturnTo(t)) /\ NoHistory
        \/ \E k \in Keys : del_199(t, k) /\ NoHistory
        \/ del_200(t) /\ NoHistory
        \/ del_201(t, ReturnTo(t)) /\ NoHistory
        \/ resume(t)

SpecReent == Init /\ [][NextReent]_vars

\* ======================================================= claims
InAdd(t) == pc[t] = "add_188"
InGet(t) == pc[t] = "get_196"
InDel(t) == pc[t] = "del_201"

\* The map of the registry of t's call as it was when t's call took the lock.
Before(t) == ref[reg[t]]
Now(t) == m_data[reg[t]]

\* C1: when add(k, e2) is about to return and k was registered when the call
\* began, it returns false and the whole map is what it was, so k is still
\* mapped to the handle it was registered with.
C1_AddCollision ==
    \A t \in Threads :
        InAdd(t) /\ key[t] \in DOMAIN Before(t)
            => /\ ret_add[t] = FALSE
               /\ DOMAIN Now(t) = DOMAIN Before(t)
               /\ \A x \in DOMAIN Now(t) : Now(t)[x] = Before(t)[x]

\* an add of a different handle on a registered key is about to return
C1_Witness ==
    \E t \in Threads :
        /\ InAdd(t)
        /\ key[t] \in DOMAIN Before(t)
        /\ Before(t)[key[t]] \in Entities
        /\ val[t] \in Entities
        /\ val[t] # Before(t)[key[t]]

\* C5: when get(k) is about to return, its result is the handle registered under
\* k, or nullptr when k is not registered, and the map is what it was: no
\* element was inserted for an absent k.
C5_GetReadsOnly ==
    \A t \in Threads :
        InGet(t)
            => /\ ret_get[t] = IF key[t] \in DOMAIN Before(t)
                                  THEN Before(t)[key[t]] ELSE nullptr
               /\ DOMAIN Now(t) = DOMAIN Before(t)
               /\ \A x \in DOMAIN Now(t) : Now(t)[x] = Before(t)[x]

\* a get on an absent key of a non-empty registry is about to return
C5_Witness ==
    \E t \in Threads :
        InGet(t) /\ key[t] \notin DOMAIN Before(t) /\ DOMAIN Before(t) # {}

\* C6: when del(k) is about to return, k is not registered and every other key
\* is mapped exactly as before, whether or not k was registered.
C6_DelFrame ==
    \A t \in Threads :
        InDel(t)
            => /\ DOMAIN Now(t) = DOMAIN Before(t) \ {key[t]}
               /\ \A x \in DOMAIN Now(t) : Now(t)[x] = Before(t)[x]

\* a del of an absent key is about to return while another key is registered
C6_Witness ==
    \E t \in Threads :
        InDel(t) /\ key[t] \notin DOMAIN Before(t) /\ DOMAIN Before(t) # {}

\* ------------------------------------------------------- concurrent adds
AllDone == \A t \in Threads : pc[t] = "done"
SameKey == \A t, u \in Threads : key[t] = key[u]
DistinctKeys == \A t, u \in Threads : t # u => key[t] # key[u]

\* C2: when all N threads have returned from their add of one and the same
\* key, exactly one of them got true, the others got false, and the key is
\* mapped to the handle that thread passed.
C2_ExactlyOneWins ==
    AllDone /\ SameKey
        => \E w \in Threads :
              /\ ret_add[w] = TRUE
              /\ \A u \in Threads \ {w} : ret_add[u] = FALSE
              /\ DOMAIN m_data[1] = {key[w]}
              /\ m_data[1][key[w]] = val[w]

\* all threads have returned from adds of the same key with different handles
C2_Witness ==
    /\ AllDone
    /\ SameKey
    /\ \A t, u \in Threads : t # u => val[t] # val[u]

\* C3: when all N threads have returned from their adds of N pairwise distinct
\* keys on the empty registry, every one got true and the map holds exactly
\* those N keys, each mapped to the handle its own thread passed.
C3_AllDistinctSucceed ==
    AllDone /\ DistinctKeys
        => /\ \A t \in Threads : ret_add[t] = TRUE
           /\ DOMAIN m_data[1] = {key[t] : t \in Threads}
           /\ Cardinality(DOMAIN m_data[1]) = NumThreads
           /\ \A t \in Threads : m_data[1][key[t]] = val[t]

\* all threads have returned from adds of pairwise distinct keys
C3_Witness == AllDone /\ DistinctKeys /\ \A t \in Threads : val[t] \in Entities

\* ------------------------------------------------------- instance()
\* C4: any two handles obtained from instance() are handles on the same
\* registry object, so that both show the same map.
C4_InstanceIsSingleton ==
    \A t, u \in Threads :
        orm_ins[t] # 0 /\ orm_ins[u] # 0
            => /\ orm_ins[t] = orm_ins[u]
               /\ (m_mtx[orm_ins[t]] = Unlocked /\ m_mtx[orm_ins[u]] = Unlocked
                      => m_data[orm_ins[t]] = m_data[orm_ins[u]])

\* ------------------------------------------------------- one thread
\* C7: while k is a removed key (del(k) returned on a registered k and no add
\* returned true on k since), a get(k) returns nullptr and an add(k, _) returns
\* true.
C7_RemovedIsGone ==
    /\ InGet(Main) /\ key[Main] \in deleted => ret_get[Main] = nullptr
    /\ InAdd(Main) /\ key[Main] \in deleted => ret_add[Main] = TRUE
    /\ pc[Main] = "idle" => \A k \in deleted : ~Found(m_data[1], k)

\* a get of a key that was added and then removed is about to return
C7_Witness == InGet(Main) /\ key[Main] \in deleted

\* What the Account scenario says each of its calls returns.
ScenarioResults ==
    /\ scen \in {1, 2} /\ InAdd(Main) => ret_add[Main] = TRUE
    /\ scen = 3 /\ InAdd(Main) => ret_add[Main] = FALSE
    /\ scen = 4 /\ InGet(Main) => ret_get[Main] = acct_a
    /\ scen = 5 /\ InDel(Main) => ~Found(m_data[1], 1)
    /\ scen = 6 /\ InGet(Main) => ret_get[Main] = nullptr
    /\ scen = 7 /\ InGet(Main) => ret_get[Main] = acct_a

\* C8: in a single thread's sequence of calls on a registry that starts
\* empty, every call returns what the reference partial map returns and leaves
\* the map equal to the reference map; the calls of the Account scenario
\* return what the scenario says.
C8_MatchesReference ==
    /\ pc[Main] = "idle" => m_data[1] = ref[1]
    /\ InAdd(Main) => /\ ret_add[Main] = RefAddResult(ref[1], key[Main])
                      /\ m_data[1] = RefAdd(ref[1], key[Main], val[Main])
    /\ InGet(Main) => /\ ret_get[Main] = RefGet(ref[1], key[Main])
                      /\ m_data[1] = ref[1]
    /\ InDel(Main) => m_data[1] = RefDel(ref[1], key[Main])
    /\ ScenarioResults

\* the last call of the Account scenario is about to return
C8_Witness == scen = Len(Script) /\ InGet(Main)

\* ------------------------------------------------------- hooks
Fired(v, h) == <<v, h>> \in hooks

InBody(t) == pc[t] \in {"add_183", "add_186", "get_192", "del_200"}
AtReturn(t) == InAdd(t) \/ InGet(t) \/ InDel(t)
Waiting(t) == pc[t] \in {"add_182", "get_191", "del_199"}

\* C12: the calls on one registry take effect one at a time, each at the
\* moment it returns: the map between calls is the reference map of the calls
\* that have returned, a call in its body sees that map unchanged by any other
\* call, and a call about to return has the result and has made the change
\* that the reference operation makes on that map.
C12_Linearizable ==
    /\ \A r \in Registries : m_mtx[r] = Unlocked => m_data[r] = ref[r]
    /\ \A t \in Threads :
          /\ InBody(t) => Now(t) = Before(t)
          /\ InAdd(t) => /\ ret_add[t] = RefAddResult(Before(t), key[t])
                         /\ Now(t) = RefAdd(Before(t), key[t], val[t])
          /\ InGet(t) => /\ ret_get[t] = RefGet(Before(t), key[t])
                         /\ Now(t) = Before(t)
          /\ InDel(t) => Now(t) = RefDel(Before(t), key[t])

\* an add that changed the map is about to return while another thread's call
\* on the same registry is waiting for the lock
C12_Witness ==
    \E t, u \in Threads :
        /\ t # u
        /\ InAdd(t) /\ ret_add[t] = TRUE /\ DOMAIN Before(t) # {}
        /\ Waiting(u) /\ reg[u] = reg[t]

\* The lock_guard l of t's call is alive: from the statement after it to the
\* return.
InCritical(t) == InBody(t) \/ AtReturn(t)

\* The statements that read or write m_data: find (183, 192), insert (186),
\* erase (200).
AccessesMap(t) == InBody(t)

Holds(t, r) == m_mtx[r].owner = t /\ m_mtx[r].count >= 1

\* C14: a thread between its lock_guard and its return holds the lock of the
\* registry it is in, so every statement that reads or writes the map runs
\* under the lock; no two threads are there on the same registry at once; and
\* the map of a registry changes only in a step that begins and ends with the
\* lock held by a thread that is at a map statement of that registry.
C14_MapOnlyUnderLock ==
    /\ [](\A t \in Threads : InCritical(t) => Holds(t, reg[t]))
    /\ [](\A t, u \in Threads :
             t # u /\ InCritical(t) /\ InCritical(u) => reg[t] # reg[u])
    /\ [][\A r \in Registries :
             m_data'[r] # m_data[r]
                 => \E t \in Threads :
                       /\ AccessesMap(t) /\ reg[t] = r
                       /\ Holds(t, r) /\ Holds(t, r)']_vars

\* a thread is about to insert while another thread's call on the same registry
\* waits at its lock_guard
C14_Witness ==
    \E t, u \in Threads :
        /\ t # u
        /\ pc[t] = "add_186" /\ Holds(t, reg[t])
        /\ Waiting(u) /\ reg[u] = reg[t]

\* ------------------------------------------------------- empty handles
\* C19: what add returns is whether the key was absent, whatever handle it is
\* given and whatever handle the key holds.  An add of nullptr on an absent key
\* returns true and leaves the key registered with nullptr; on a key
\* registered with nullptr, get returns nullptr and add returns false and
\* leaves the nullptr in place.
C19_NullOccupiesKey ==
    \A t \in Threads :
        /\ InAdd(t) => ret_add[t] = ~Found(Before(t), key[t])
        /\ InAdd(t) /\ val[t] = nullptr /\ ~Found(Before(t), key[t])
              => Found(Now(t), key[t]) /\ Now(t)[key[t]] = nullptr
        /\ InGet(t) /\ Found(Before(t), key[t]) /\ Before(t)[key[t]] = nullptr
              => ret_get[t] = nullptr /\ Found(Now(t), key[t])
        /\ InAdd(t) /\ Found(Before(t), key[t]) /\ Before(t)[key[t]] = nullptr
              => Found(Now(t), key[t]) /\ Now(t)[key[t]] = nullptr

\* an add of an entity on a key registered with nullptr is about to return
C19_Witness ==
    \E t \in Threads :
        /\ InAdd(t) /\ val[t] \in Entities
        /\ Found(Before(t), key[t]) /\ Before(t)[key[t]] = nullptr

\* ------------------------------------------------------- re-entrancy
\* t has a registry call suspended at a map statement, under the lock.
Nested(t) == stack[t] # << >>

\* C15: a thread that makes a call on the registry from inside one of its own
\* calls is not made to wait at the lock_guard of the inner call; while it has
\* a call suspended it owns the lock, once for every suspended call, and no
\* other thread is past a lock_guard of that registry, also after the inner
\* call has returned and released.
C15_Reentrant ==
    \A t \in Threads :
        /\ Nested(t) /\ Waiting(t)
              => ENABLED (\E k \in Keys, v \in val_pt :
                             lock_guard(t, pc[t], pc[t], k, v))
        /\ Nested(t)
              => /\ m_mtx[reg[t]].owner = t
                 /\ m_mtx[reg[t]].count >= Len(stack[t])
                 /\ \A u \in Threads \ {t} :
                       reg[u] = reg[t] => ~InCritical(u) /\ ~Nested(u)

\* the inner call of a thread has returned to the suspended call, which still
\* holds the lock another thread is waiting for
C15_Witness ==
    \E t, u \in Threads :
        /\ t # u
        /\ Nested(t) /\ pc[t] = "ret"
        /\ Waiting(u) /\ reg[u] = reg[t]

\* The lock_guards of thread t on the mutex of registry r that are alive: one
\* for each suspended call and one for the call in progress once it is past
\* its first statement.
Guards(t, r) ==
    IF reg[t] = r
       THEN Len(stack[t]) + (IF InCritical(t) THEN 1 ELSE 0)
       ELSE 0

\* C20: the mutex of a registry is held exactly as many times as there are
\* live lock_guards on it, all of the owning thread, so it is free whenever no
\* thread is inside an operation; and the step by which a call returns, on
\* every return path, gives up one acquisition and no more, which leaves the
\* hold count at what it was when the call was made.
C20_LockBalanced ==
    /\ [](\A r \in Registries :
             /\ \A t \in Threads :
                   Guards(t, r) = IF m_mtx[r].owner = t THEN m_mtx[r].count ELSE 0
             /\ (\A t \in Threads : Guards(t, r) = 0) => m_mtx[r] = Unlocked)
    /\ [][\A t \in Threads, r \in Registries :
             AtReturn(t) /\ reg[t] = r /\ ~AtReturn(t)'
                 => /\ m_mtx'[r].count = m_mtx[r].count - 1
                    /\ m_mtx'[r].count = Len(stack[t])
                    /\ m_mtx'[r].owner = IF Nested(t) THEN t ELSE 0]_vars

\* an inner add is about to return false from its collision test while the
\* call that made it is suspended
C20_Witness ==
    \E t \in Threads :
        /\ Nested(t) /\ InAdd(t) /\ ret_add[t] = FALSE
        /\ m_mtx[reg[t]].count = Len(stack[t]) + 1

C17_Independent ==
    /\ [](\A t \in Threads :
             (/\ Waiting(t)
              /\ \A u \in Threads \ {t} : reg[u] = reg[t] => ~InCritical(u))
                 => ENABLED (\E k \in Keys, v \in val_pt :
                                lock_guard(t, pc[t], pc[t], k, v)))
    /\ [][\A t \in Threads, r \in Registries :
             pc'[t] # pc[t] /\ reg[t] # r /\ reg'[t] # r
                 => m_data'[r] = m_data[r] /\ m_mtx'[r] = m_mtx[r]]_vars

\* two threads are past the lock_guards of calls on two different registries
C17_Witness ==
    \E t, u \in Threads :
        /\ InCritical(t) /\ InCritical(u)
        /\ reg[t] # reg[u]
        /\ DOMAIN m_data[reg[t]] # DOMAIN m_data[reg[u]]

\* ------------------------------------------------------- shared ownership
\* Entity e is the value of an entry of some registry.
InMap(e) ==
    \E r \in Registries : \E k \in DOMAIN m_data[r] : m_data[r][k] = e

\* Some thread has a handle on e: one it keeps, or the one a get is returning
\* to it.
External(e) ==
    \E t \in Threads :
        \/ e \in held[t]
        \/ pc[t] \in {"get_196", "done"} /\ ret_get[t] = e

\* C18: get returns the handle that was passed to add, a handle on the same
\* entity and so on the fields that any holder has set; an entity that a
\* registry entry or an external holder has a handle on is not freed; and when
\* del(k) is about to return on a key whose entity an external holder has, the
\* entry is gone and the entity is alive with its fields as that holder set
\* them.
C18_SharedOwner ==
    /\ \A t \in Threads :
          InGet(t) /\ Found(Before(t), key[t])
              => ret_get[t] = Before(t)[key[t]] /\ ret_get[t] = Now(t)[key[t]]
    /\ \A e \in Entities :
          InMap(e) \/ External(e) => e \notin freed /\ use_count[e] >= 1
    /\ \A t \in Threads :
          (InDel(t) /\ Found(Before(t), key[t]) /\ Before(t)[key[t]] \in Entities
              /\ External(Before(t)[key[t]]))
              => /\ ~Found(Now(t), key[t])
                 /\ Before(t)[key[t]] \notin freed
                 /\ m_val[Before(t)[key[t]]] \in 0..MaxVal

\* a del is about to return on a key whose entity, with a field set, is kept
\* by an external holder, after another entity has been freed
C18_Witness ==
    \E t, u \in Threads : \E e \in Entities :
        /\ InDel(t) /\ Found(Before(t), key[t]) /\ Before(t)[key[t]] = e
        /\ ~InMap(e)
        /\ e \in held[u] /\ m_val[e] # 0
        /\ freed # {}

\* ------------------------------------------------------- test()
\* C16: whenever test() is at its assertion, in any of the iterations i = 0, 1
\* and 2, the handle that get(i) returned is not nullptr, so that the assertion
\* never fails.
C16_AssertHolds ==
    \A t \in Threads :
        /\ line[t] = 257 /\ i[t] \in 0..2 => ret_get[t] # nullptr
        /\ pc[t] # "abort"

TypeOK ==
    /\ nreg \in 0..MaxReg
    /\ \A r \in Registries :
          /\ DOMAIN m_data[r] \subseteq Keys
          /\ \A k \in DOMAIN m_data[r] : m_data[r][k] \in val_pt
          /\ m_mtx[r].owner \in {0} \cup Threads
    /\ orm_ins \in [Threads -> 0..MaxReg]
    /\ hooks \subseteq Entities \X HookNames

====
